---- MODULE Spec2Model ----
(***************************************************************************)
(* Model of src/diff.rs: Diff::parse (a pest grammar plus the tree walker  *)
(* parse_diff / parse_diff_header / parse_hunk / parse_range) and the      *)
(* rendering operations Display for Diff/Delta/Hunk, Hunk::display_header, *)
(* Hunk::header and Hunk::format_patch.                                    *)
(*                                                                         *)
(* Text is a sequence of one-character strings.  An Option<T> is a         *)
(* sequence of length 0 (None) or 1 (Some).  The grammar file diff.pest is *)
(* not part of the sources; its rules follow spec.md section 4.1.          *)
(***************************************************************************)
EXTENDS Integers, Sequences, FiniteSets, TLC

\* ------------------------------------------------------------------ bounds
\* Largest number of per-file diff blocks in a generated input.
MaxDeltas == 2
\* Largest total number of hunks in a generated input.
MaxHunks == 2

\* ------------------------------------------------------------ text helpers
NL == "\n"

Digits == {"0", "1", "2", "3", "4", "5", "6", "7", "8", "9"}

DigitVal(c) ==
  CASE c = "0" -> 0 [] c = "1" -> 1 [] c = "2" -> 2 [] c = "3" -> 3
    [] c = "4" -> 4 [] c = "5" -> 5 [] c = "6" -> 6 [] c = "7" -> 7
    [] c = "8" -> 8 [] c = "9" -> 9

DigitChar(d) ==
  CASE d = 0 -> "0" [] d = 1 -> "1" [] d = 2 -> "2" [] d = 3 -> "3"
    [] d = 4 -> "4" [] d = 5 -> "5" [] d = 6 -> "6" [] d = 7 -> "7"
    [] d = 8 -> "8" [] d = 9 -> "9"

\* Literals of the grammar and of the format strings.
LitDiffGit == <<"d", "i", "f", "f", " ", "-", "-", "g", "i", "t">>
LitHunkOpen == <<"@", "@", " ", "-">>
LitNewOpen == <<" ", "+">>
LitHunkClose == <<" ", "@", "@">>
LitOldMarker == <<"-", "-", "-", " ">>
LitNewMarker == <<"+", "+", "+", " ">>

\* The literal lit occurs in s at position i.
At(s, i, lit) ==
  /\ i + Len(lit) - 1 <= Len(s)
  /\ \A k \in 1..Len(lit) : s[i + k - 1] = lit[k]

\* Position of the first line terminator at or after i (Len(s)+1 if none).
EolPos(s, i) ==
  CHOOSE j \in i..(Len(s) + 1) :
    /\ j = Len(s) + 1 \/ s[j] = NL
    /\ \A k \in i..(j - 1) : s[k] # NL

\* Position just after the run of digits starting at i.
DigitsEnd(s, i) ==
  CHOOSE j \in i..(Len(s) + 1) :
    /\ j = Len(s) + 1 \/ s[j] \notin Digits
    /\ \A k \in i..(j - 1) : s[k] \in Digits

\* -------------------------------------------------- grammar (pest pairs)
\* A pair of the parse tree: the rule, the matched text, the inner pairs.
Pair(rule, s, from, to, inner) ==
  [rule |-> rule, str |-> SubSeq(s, from, to - 1), inner |-> inner]

Fail == [ok |-> FALSE, pos |-> 0, pairs |-> <<>>]
Match(pos, pairs) == [ok |-> TRUE, pos |-> pos, pairs |-> pairs]

\* LET v == value IN Body(v), with the value evaluated in one place.
With(value, Body(_)) == Body(value)

\* range = start ["," lines], start and lines digit-only spans.
Rule_range(s, i, name) ==
  With(DigitsEnd(s, i), LAMBDA e1 :
    IF i > Len(s) \/ e1 = i THEN Fail
    ELSE With(IF e1 <= Len(s) /\ s[e1] = "," THEN DigitsEnd(s, e1 + 1) ELSE e1,
              LAMBDA e2 :
      IF e2 > e1 + 1
      THEN Match(e2, <<Pair(name, s, i, e2,
                            <<Pair("start", s, i, e1, <<>>),
                              Pair("lines", s, e1 + 1, e2, <<>>)>>)>>)
      ELSE Match(e1, <<Pair(name, s, i, e1, <<Pair("start", s, i, e1, <<>>)>>)>>)))

\* header_extra: metadata lines between the "diff --git" line and the
\* old-file marker line, one pair per line.
RECURSIVE Rule_header_extra(_, _)
Rule_header_extra(s, i) ==
  IF i > Len(s) \/ At(s, i, LitOldMarker) \/ At(s, i, LitHunkOpen)
       \/ At(s, i, LitDiffGit)
  THEN Match(i, <<>>)
  ELSE With(EolPos(s, i), LAMBDA e :
         IF e > Len(s) THEN Match(i, <<>>)
         ELSE With(Rule_header_extra(s, e + 1), LAMBDA rest :
                Match(rest.pos,
                      <<Pair("header_extra", s, i, e + 1, <<>>)>> \o rest.pairs)))

\* diff_header = "diff --git" line, header_extra*, "--- " old_file line,
\* "+++ " new_file line.
Rule_diff_header(s, i) ==
  IF ~At(s, i, LitDiffGit) THEN Fail
  ELSE With(EolPos(s, i), LAMBDA e0 :
    IF e0 > Len(s) THEN Fail
    ELSE With(Rule_header_extra(s, e0 + 1), LAMBDA extra :
      IF ~At(s, extra.pos, LitOldMarker) THEN Fail
      ELSE With(EolPos(s, extra.pos), LAMBDA oe :
        IF oe > Len(s) \/ ~At(s, oe + 1, LitNewMarker) THEN Fail
        ELSE With(EolPos(s, oe + 1), LAMBDA ne :
          IF ne > Len(s) THEN Fail
          ELSE Match(ne + 1,
                     <<Pair("diff_header", s, i, ne + 1,
                            extra.pairs \o
                            <<Pair("old_file", s, extra.pos + Len(LitOldMarker), oe, <<>>),
                              Pair("new_file", s, oe + 1 + Len(LitNewMarker), ne, <<>>)>>)>>)))))

\* hunk_header = "@@ -" old_range " +" new_range " @@" context NEWLINE
Rule_hunk_header(s, i) ==
  IF ~At(s, i, LitHunkOpen) THEN Fail
  ELSE With(Rule_range(s, i + Len(LitHunkOpen), "old_range"), LAMBDA old :
    IF ~old.ok \/ ~At(s, old.pos, LitNewOpen) THEN Fail
    ELSE With(Rule_range(s, old.pos + Len(LitNewOpen), "new_range"), LAMBDA new :
      IF ~new.ok \/ ~At(s, new.pos, LitHunkClose) THEN Fail
      ELSE With(EolPos(s, new.pos + Len(LitHunkClose)), LAMBDA e :
        IF e > Len(s) THEN Fail
        ELSE Match(e + 1,
                   old.pairs \o new.pairs \o
                   <<Pair("context", s, new.pos + Len(LitHunkClose), e, <<>>)>>))))

\* A header begins a new node only where it is structurally expected, at the
\* start of a line, and only when the whole hunk_header or diff_header
\* matches there.
HeaderAt(s, i) == Rule_hunk_header(s, i).ok \/ Rule_diff_header(s, i).ok

\* hunk_body: from the start of a line up to the next hunk_header or the
\* next diff_header, or the end of input.
RECURSIVE BodyEnd(_, _)
BodyEnd(s, i) ==
  IF i > Len(s) \/ HeaderAt(s, i) THEN i
  ELSE With(EolPos(s, i), LAMBDA e :
         IF e > Len(s) THEN e ELSE BodyEnd(s, e + 1))

\* hunk = hunk_header hunk_body
Rule_hunk(s, i) ==
  With(Rule_hunk_header(s, i), LAMBDA h :
    IF ~h.ok THEN Fail
    ELSE With(BodyEnd(s, h.pos), LAMBDA b :
           Match(b, <<Pair("hunk", s, i, b,
                           h.pairs \o <<Pair("hunk_body", s, h.pos, b, <<>>)>>)>>)))

\* hunk*
RECURSIVE Rule_hunks(_, _)
Rule_hunks(s, i) ==
  With(Rule_hunk(s, i), LAMBDA h :
    IF ~h.ok THEN Match(i, <<>>)
    ELSE With(Rule_hunks(s, h.pos), LAMBDA rest :
           Match(rest.pos, h.pairs \o rest.pairs)))

\* diff = diff_header hunk*
Rule_diff(s, i) ==
  With(Rule_diff_header(s, i), LAMBDA h :
    IF ~h.ok THEN Fail
    ELSE With(Rule_hunks(s, h.pos), LAMBDA hs :
           Match(hs.pos, <<Pair("diff", s, i, hs.pos, h.pairs \o hs.pairs)>>)))

\* diff*
RECURSIVE Rule_diff_star(_, _)
Rule_diff_star(s, i) ==
  With(Rule_diff(s, i), LAMBDA d :
    IF ~d.ok THEN Match(i, <<>>)
    ELSE With(Rule_diff_star(s, d.pos), LAMBDA rest :
           Match(rest.pos, d.pairs \o rest.pairs)))

\* commit: one line before the first diff block that does not open a diff
\* header; the pair holds the line's text.
Rule_commit(s, i) ==
  IF i > Len(s) \/ At(s, i, LitDiffGit) THEN Fail
  ELSE With(EolPos(s, i), LAMBDA e :
         IF e > Len(s) THEN Fail
         ELSE Match(e + 1, <<Pair("commit", s, i, e, <<>>)>>))

\* diffs = commit? diff*, matching the whole input.
Rule_diffs(s) ==
  With(Rule_commit(s, 1), LAMBDA c :
    With(Rule_diff_star(s, IF c.ok THEN c.pos ELSE 1), LAMBDA ds :
      IF ds.pos = Len(s) + 1
      THEN Match(ds.pos, (IF c.ok THEN c.pairs ELSE <<>>) \o ds.pairs)
      ELSE Fail))

\* ------------------------------------------------------------ tree walker
\* Largest u32 is 4294967295 = U32MaxDiv10 * 10 + U32MaxMod10.
U32MaxDiv10 == 429496729
U32MaxMod10 == 5

\* str::parse::<u32>: an optional leading "+", then at least one digit;
\* checked multiply-and-add, an error on overflow or on any other character.
RECURSIVE parse_u32_digits(_, _, _)
parse_u32_digits(str, k, acc) ==
  IF k > Len(str) THEN [ok |-> TRUE, val |-> acc]
  ELSE IF str[k] \notin Digits THEN [ok |-> FALSE, val |-> 0]
  ELSE IF acc > U32MaxDiv10 \/ (acc = U32MaxDiv10 /\ DigitVal(str[k]) > U32MaxMod10)
  THEN [ok |-> FALSE, val |-> 0]
  ELSE parse_u32_digits(str, k + 1, acc * 10 + DigitVal(str[k]))

\* Where the digits start: after the optional "+".
SignEnd(str) == IF Len(str) > 0 /\ str[1] = "+" THEN 2 ELSE 1

\* parse_u32 keeping only the low 16 bits of the value.
parse_u32_truncating(str) ==
  IF SignEnd(str) > Len(str) THEN [ok |-> FALSE, val |-> 0]
  ELSE With(parse_u32_digits(str, SignEnd(str), 0), LAMBDA r :
         [ok |-> r.ok, val |-> r.val % 65536])

parse_u32(str) ==
  IF SignEnd(str) > Len(str) THEN [ok |-> FALSE, val |-> 0]
  ELSE parse_u32_digits(str, SignEnd(str), 0)

\* Outcome of a walker function: the panic message ("" if none) and the value.
Panic(msg) == [panic |-> msg, val |-> <<>>]
Value(v) == [panic |-> "", val |-> v]

UnwrapNone == "called Option::unwrap() on a None value"

\* One iteration of the loop of parse_range.
parse_range_step(acc, range_field) ==
  CASE range_field.rule = "start" ->
         With(parse_u32(range_field.str), LAMBDA r :
           IF r.ok THEN [acc EXCEPT !.start = <<r.val>>]
           ELSE [acc EXCEPT !.panic = "Error parsing range start"])
    [] range_field.rule = "lines" ->
         With(parse_u32(range_field.str), LAMBDA r :
           IF r.ok THEN [acc EXCEPT !.lines = <<r.val>>]
           ELSE [acc EXCEPT !.panic = "Error parsing range lines"])
    [] OTHER -> [acc EXCEPT !.panic = "No rule"]

RECURSIVE parse_range_loop(_, _, _)
parse_range_loop(fields, k, acc) ==
  IF acc.panic # "" \/ k > Len(fields) THEN acc
  ELSE parse_range_loop(fields, k + 1, parse_range_step(acc, fields[k]))

parse_range(hunk_field) ==
  With(parse_range_loop(hunk_field.inner, 1,
                        [start |-> <<>>, lines |-> <<>>, panic |-> ""]),
       LAMBDA acc :
    IF acc.panic # "" THEN Panic(acc.panic)
    ELSE IF acc.start = <<>> THEN Panic("No range start")
    ELSE IF acc.lines = <<>> THEN Panic("No range lines")
    ELSE Value(<<acc.start[1], acc.lines[1]>>))

\* The text before the first "@@" of str (all of str if there is none).
CutAtMarker(str) ==
  SubSeq(str, 1,
         (CHOOSE j \in 1..(Len(str) + 1) :
            /\ j = Len(str) + 1 \/ At(str, j, <<"@", "@">>)
            /\ \A k \in 1..(j - 1) : ~At(str, k, <<"@", "@">>)) - 1)

\* parse_hunk_step ending the content at the first "@@" it holds.
parse_hunk_step_cut(acc, hunk_field) ==
  CASE hunk_field.rule = "old_range" ->
         With(parse_range(hunk_field), LAMBDA r :
           IF r.panic # "" THEN [acc EXCEPT !.panic = r.panic]
           ELSE [acc EXCEPT !.old_range = <<r.val>>])
    [] hunk_field.rule = "new_range" ->
         With(parse_range(hunk_field), LAMBDA r :
           IF r.panic # "" THEN [acc EXCEPT !.panic = r.panic]
           ELSE [acc EXCEPT !.new_range = <<r.val>>])
    [] hunk_field.rule = "context" -> [acc EXCEPT !.context = <<hunk_field.str>>]
    [] hunk_field.rule = "hunk_body" ->
         [acc EXCEPT !.body = <<CutAtMarker(hunk_field.str)>>]
    [] OTHER -> [acc EXCEPT !.panic = "No rule"]

\* One iteration of the loop of parse_hunk.
parse_hunk_step(acc, hunk_field) ==
  CASE hunk_field.rule = "old_range" ->
         With(parse_range(hunk_field), LAMBDA r :
           IF r.panic # "" THEN [acc EXCEPT !.panic = r.panic]
           ELSE [acc EXCEPT !.old_range = <<r.val>>])
    [] hunk_field.rule = "new_range" ->
         With(parse_range(hunk_field), LAMBDA r :
           IF r.panic # "" THEN [acc EXCEPT !.panic = r.panic]
           ELSE [acc EXCEPT !.new_range = <<r.val>>])
    [] hunk_field.rule = "context" -> [acc EXCEPT !.context = <<hunk_field.str>>]
    [] hunk_field.rule = "hunk_body" -> [acc EXCEPT !.body = <<hunk_field.str>>]
    [] OTHER -> [acc EXCEPT !.panic = "No rule"]

RECURSIVE parse_hunk_loop(_, _, _)
parse_hunk_loop(fields, k, acc) ==
  IF acc.panic # "" \/ k > Len(fields) THEN acc
  ELSE parse_hunk_loop(fields, k + 1, parse_hunk_step(acc, fields[k]))

parse_hunk(diff_field, file_header, old_file, new_file) ==
  With(parse_hunk_loop(diff_field.inner, 1,
                       [old_range |-> <<>>, new_range |-> <<>>,
                        context |-> <<>>, body |-> <<>>, panic |-> ""]),
       LAMBDA acc :
    IF acc.panic # "" THEN Panic(acc.panic)
    ELSE IF acc.old_range = <<>> \/ acc.new_range = <<>>
            \/ acc.context = <<>> \/ acc.body = <<>>
    THEN Panic(UnwrapNone)
    ELSE Value([file_header |-> file_header,
                old_file |-> old_file,
                new_file |-> new_file,
                old_start |-> acc.old_range[1][1],
                old_lines |-> acc.old_range[1][2],
                new_start |-> acc.new_range[1][1],
                new_lines |-> acc.new_range[1][2],
                header_suffix |-> acc.context[1],
                content |-> acc.body[1]]))

\* One iteration of the loop of parse_diff_header.
parse_diff_header_step(acc, diff_header_field) ==
  CASE diff_header_field.rule = "old_file" ->
         [acc EXCEPT !.old_file = <<diff_header_field.str>>]
    [] diff_header_field.rule = "new_file" ->
         [acc EXCEPT !.new_file = <<diff_header_field.str>>]
    [] diff_header_field.rule = "header_extra" -> acc
    [] OTHER -> [acc EXCEPT !.panic = "No rule"]

RECURSIVE parse_diff_header_loop(_, _, _)
parse_diff_header_loop(fields, k, acc) ==
  IF acc.panic # "" \/ k > Len(fields) THEN acc
  ELSE parse_diff_header_loop(fields, k + 1,
                              parse_diff_header_step(acc, fields[k]))

parse_diff_header(diff_field) ==
  With(parse_diff_header_loop(diff_field.inner, 1,
                              [old_file |-> <<>>, new_file |-> <<>>, panic |-> ""]),
       LAMBDA acc :
    IF acc.panic # "" THEN Panic(acc.panic)
    ELSE IF acc.old_file = <<>> \/ acc.new_file = <<>> THEN Panic(UnwrapNone)
    ELSE Value(<<acc.old_file[1], acc.new_file[1]>>))

\* parse_diff_step putting each hunk in front of the ones before it.
parse_diff_step_prepend(acc, diff_field) ==
  CASE diff_field.rule = "diff_header" ->
         With(parse_diff_header(diff_field), LAMBDA r :
           IF r.panic # "" THEN [acc EXCEPT !.panic = r.panic]
           ELSE [acc EXCEPT !.file_header = <<diff_field.str>>,
                            !.old_file = <<r.val[1]>>,
                            !.new_file = <<r.val[2]>>])
    [] diff_field.rule = "hunk" ->
         IF acc.file_header = <<>> \/ acc.old_file = <<>> \/ acc.new_file = <<>>
         THEN [acc EXCEPT !.panic = UnwrapNone]
         ELSE With(parse_hunk(diff_field, acc.file_header[1],
                              acc.old_file[1], acc.new_file[1]), LAMBDA r :
                IF r.panic # "" THEN [acc EXCEPT !.panic = r.panic]
                ELSE [acc EXCEPT !.hunks = <<r.val>> \o acc.hunks])
    [] OTHER -> [acc EXCEPT !.panic = "No rule"]

\* One iteration of the loop of parse_diff.
parse_diff_step(acc, diff_field) ==
  CASE diff_field.rule = "diff_header" ->
         With(parse_diff_header(diff_field), LAMBDA r :
           IF r.panic # "" THEN [acc EXCEPT !.panic = r.panic]
           ELSE [acc EXCEPT !.file_header = <<diff_field.str>>,
                            !.old_file = <<r.val[1]>>,
                            !.new_file = <<r.val[2]>>])
    [] diff_field.rule = "hunk" ->
         IF acc.file_header = <<>> \/ acc.old_file = <<>> \/ acc.new_file = <<>>
         THEN [acc EXCEPT !.panic = UnwrapNone]
         ELSE With(parse_hunk(diff_field, acc.file_header[1],
                              acc.old_file[1], acc.new_file[1]), LAMBDA r :
                IF r.panic # "" THEN [acc EXCEPT !.panic = r.panic]
                ELSE [acc EXCEPT !.hunks = Append(acc.hunks, r.val)])
    [] OTHER -> [acc EXCEPT !.panic = "No rule"]

RECURSIVE parse_diff_loop(_, _, _)
parse_diff_loop(fields, k, acc) ==
  IF acc.panic # "" \/ k > Len(fields) THEN acc
  ELSE parse_diff_loop(fields, k + 1, parse_diff_step(acc, fields[k]))

parse_diff(diff) ==
  With(parse_diff_loop(diff.inner, 1,
                       [file_header |-> <<>>, old_file |-> <<>>,
                        new_file |-> <<>>, hunks |-> <<>>, panic |-> ""]),
       LAMBDA acc :
    IF acc.panic # "" THEN Panic(acc.panic)
    ELSE IF acc.file_header = <<>> \/ acc.old_file = <<>> \/ acc.new_file = <<>>
    THEN Panic(UnwrapNone)
    ELSE Value([file_header |-> acc.file_header[1],
                old_file |-> acc.old_file[1],
                new_file |-> acc.new_file[1],
                hunks |-> acc.hunks]))

\* Diff_parse_step leaving the commit unset.
Diff_parse_step_no_commit(acc, diff) ==
  CASE diff.rule = "commit" -> acc
    [] diff.rule = "diff" ->
         With(parse_diff(diff), LAMBDA r :
           IF r.panic # "" THEN [acc EXCEPT !.panic = r.panic]
           ELSE [acc EXCEPT !.deltas = Append(acc.deltas, r.val)])
    [] OTHER -> [acc EXCEPT !.panic = "No rule"]

\* One iteration of the loop of Diff::parse.
Diff_parse_step(acc, diff) ==
  CASE diff.rule = "commit" -> [acc EXCEPT !.commit = <<diff.str>>]
    [] diff.rule = "diff" ->
         With(parse_diff(diff), LAMBDA r :
           IF r.panic # "" THEN [acc EXCEPT !.panic = r.panic]
           ELSE [acc EXCEPT !.deltas = Append(acc.deltas, r.val)])
    [] OTHER -> [acc EXCEPT !.panic = "No rule"]

RECURSIVE Diff_parse_loop(_, _, _)
Diff_parse_loop(pairs, k, acc) ==
  IF acc.panic # "" \/ k > Len(pairs) THEN acc
  ELSE Diff_parse_loop(pairs, k + 1, Diff_parse_step(acc, pairs[k]))

ErrorParsingDiff == "Error parsing diff"

\* The Diff built from the pairs of an accepted input.
Diff_walk(pairs) ==
  With(Diff_parse_loop(pairs, 1, [commit |-> <<>>, deltas |-> <<>>, panic |-> ""]),
       LAMBDA acc :
    IF acc.panic # "" THEN [panic |-> acc.panic, diff |-> <<>>]
    ELSE [panic |-> "", diff |-> <<[commit |-> acc.commit, deltas |-> acc.deltas]>>])

\* Diff_parse going on with no pairs when the grammar rejects the input.
Diff_parse_lenient(input) ==
  With(Rule_diffs(input), LAMBDA g : Diff_walk(g.pairs))

\* Diff::parse: the panic message ("" if none) and the Diff returned (none
\* when the call panics).
Diff_parse(input) ==
  With(Rule_diffs(input), LAMBDA g :
    IF ~g.ok THEN [panic |-> ErrorParsingDiff, diff |-> <<>>]
    ELSE Diff_walk(g.pairs))

\* --------------------------------------------------------------- rendering
\* Display of a u32: decimal digits, no sign, no leading zeros.
RECURSIVE fmt_u32(_)
fmt_u32(n) ==
  IF n < 10 THEN <<DigitChar(n)>>
  ELSE fmt_u32(n \div 10) \o <<DigitChar(n % 10)>>

\* "@@ -{},{} +{},{} @@"
display_header(hunk) ==
  LitHunkOpen \o fmt_u32(hunk.old_start) \o <<",">> \o fmt_u32(hunk.old_lines)
    \o LitNewOpen \o fmt_u32(hunk.new_start) \o <<",">> \o fmt_u32(hunk.new_lines)
    \o LitHunkClose

\* "@@ -{},{} +{},{} @@{}"
header(hunk) ==
  LitHunkOpen \o fmt_u32(hunk.old_start) \o <<",">> \o fmt_u32(hunk.old_lines)
    \o LitNewOpen \o fmt_u32(hunk.new_start) \o <<",">> \o fmt_u32(hunk.new_lines)
    \o LitHunkClose \o hunk.header_suffix

\* format_patch writing the bare range header.
format_patch_bare(hunk) ==
  hunk.file_header \o display_header(hunk) \o <<NL>> \o hunk.content

\* "{}{}\n{}"
format_patch(hunk) ==
  hunk.file_header \o header(hunk) \o <<NL>> \o hunk.content

\* Display for Hunk.
Hunk_fmt(hunk) == display_header(hunk) \o hunk.content

RECURSIVE Hunks_fmt(_, _)
Hunks_fmt(hunks, k) ==
  IF k > Len(hunks) THEN <<>>
  ELSE Hunk_fmt(hunks[k]) \o Hunks_fmt(hunks, k + 1)

\* Display for Delta.
Delta_fmt(delta) == delta.file_header \o Hunks_fmt(delta.hunks, 1)

RECURSIVE Deltas_fmt(_, _)
Deltas_fmt(deltas, k) ==
  IF k > Len(deltas) THEN <<>>
  ELSE Delta_fmt(deltas[k]) \o Deltas_fmt(deltas, k + 1)

\* Display for Diff.
Diff_fmt(diff) == Deltas_fmt(diff.deltas, 1)

\* ------------------------------------------------------------------ inputs
\* Per-file header blocks: one with an extra metadata line, one without.
FileHeaderF ==
  <<"d", "i", "f", "f", " ", "-", "-", "g", "i", "t", " ", "a", "/", "f", " ",
    "b", "/", "f", "\n", "i", "n", "d", "e", "x", " ", "1", ".", ".", "2", "\n",
    "-", "-", "-", " ", "a", "/", "f", "\n", "+", "+", "+", " ", "b", "/", "f", "\n">>
FileHeaderG ==
  <<"d", "i", "f", "f", " ", "-", "-", "g", "i", "t", " ", "a", "/", "g", " ",
    "b", "/", "g", "\n", "-", "-", "-", " ", "a", "/", "g", "\n", "+", "+", "+", " ", "b", "/", "g", "\n">>
FileHeaders == {FileHeaderF, FileHeaderG}

CommitLine == <<"c", "o", "m", "m", "i", "t", " ", "1", "a">>

\* A body whose context, added and removed lines hold header-shaped text, and the
\* same body with ordinary text on those lines.
ShapedBody ==
  <<" ", "@", "@", " ", "-", "2", ",", "2", " ", "+", "2", ",", "2", " ", "@", "@", "\n",
    "+", "@", "@", " ", "-", "1", ",", "1", " ", "+", "1", ",", "1", " ", "@", "@", "\n",
    "-", "d", "i", "f", "f", " ", "-", "-", "g", "i", "t", " ", "a", "/", "f", " ",
    "b", "/", "f", "\n">>
PlainBody == <<" ", "a", "\n", "+", "x", "\n", "-", "y", "\n">>

\* A hunk of an input: the two ranges as written, whether the closing "@@"
\* is present, the rest of the header line, the body, and the decimal values
\* of the four digit spans (none when a span is missing or exceeds a u32).
HunkInput(old, new, closed, suffix, body, vals) ==
  [old |-> old, new |-> new, closed |-> closed, suffix |-> suffix,
   body |-> body, vals |-> vals]

HunkExample ==
  HunkInput(<<"3", "7", ",", "1", "3">>, <<"3", "7", ",", "1", "2">>, TRUE,
            <<" ", "i", "m", "p", "l">>, ShapedBody, <<37, 13, 37, 12>>)
HunkLarge ==
  HunkInput(<<"2", "1", "4", "7", "4", "8", "3", "6", "4", "7", ",", "2">>,
            <<"6", "5", "5", "3", "6", ",", "3">>, TRUE,
            <<>>, <<"+", "a", "\n", " ", "b", "\n">>, <<2147483647, 2, 65536, 3>>)
HunkLeadingZero ==
  HunkInput(<<"0", "1", ",", "2">>, <<"1", ",", "0", "0", "2">>, TRUE,
            <<>>, <<"-", "b", "\n">>, <<1, 2, 1, 2>>)
HunkNoLines ==
  HunkInput(<<"3">>, <<"3", ",", "1">>, TRUE,
            <<>>, <<"+", "a", "\n", " ", "b", "\n">>, <<>>)
HunkOverflow ==
  HunkInput(<<"4", "2", "9", "4", "9", "6", "7", "2", "9", "6", ",", "1">>,
            <<"1", ",", "1">>, TRUE, <<>>, <<"-", "b", "\n">>, <<>>)
HunkUnclosed ==
  HunkInput(<<"1", ",", "2">>, <<"1", ",", "2">>, FALSE,
            <<>>, <<"+", "a", "\n", " ", "b", "\n">>, <<1, 2, 1, 2>>)

HunkInputs ==
  {HunkExample, HunkLarge, HunkLeadingZero, HunkNoLines, HunkOverflow, HunkUnclosed}

\* The range-header line of a hunk of the input, with its line terminator.
HunkHeaderLine(h) ==
  LitHunkOpen \o h.old \o LitNewOpen \o h.new
    \o (IF h.closed THEN LitHunkClose ELSE <<>>) \o h.suffix \o <<NL>>

RECURSIVE HunksText(_, _)
HunksText(hs, k) ==
  IF k > Len(hs) THEN <<>>
  ELSE HunkHeaderLine(hs[k]) \o hs[k].body \o HunksText(hs, k + 1)

RECURSIVE BlocksText(_, _)
BlocksText(bs, k) ==
  IF k > Len(bs) THEN <<>>
  ELSE bs[k].hdr \o HunksText(bs[k].hunks, 1) \o BlocksText(bs, k + 1)

\* The text of an input: the optional commit line, then the diff blocks.
InputText(s) ==
  (IF s.commit = <<>> THEN <<>> ELSE s.commit[1] \o <<NL>>) \o BlocksText(s.blocks, 1)

RECURSIVE HunkCount(_, _)
HunkCount(bs, k) ==
  IF k > Len(bs) THEN 0 ELSE Len(bs[k].hunks) + HunkCount(bs, k + 1)

\* ------------------------------------------------------------ state machine
VARIABLES
  src,       \* how the input was drawn
  input,     \* the text given to Diff::parse
  pc,        \* "input", "parsed", "panicked", "rendered", "patched", "reparsed"
  diff,      \* Option<Diff>: the value Diff::parse returned
  panic,     \* the panic message of Diff::parse, "" if none
  out,       \* the text rendered by Display for Diff
  sel,       \* <<i, j>>: the hunk format_patch was called on
  patch,     \* the text format_patch returned
  reparsed   \* Option of the outcome of Diff::parse(patch)

vars == <<src, input, pc, diff, panic, out, sel, patch, reparsed>>

Init ==
  /\ src = [commit |-> <<>>, blocks |-> <<>>]
  /\ input = <<>>
  /\ pc = "input"
  /\ diff = <<>>
  /\ panic = ""
  /\ out = <<>>
  /\ sel = <<>>
  /\ patch = <<>>
  /\ reparsed = <<>>

\* The caller assembles the text: a leading commit line ...
AddCommit ==
  /\ pc = "input"
  /\ src.commit = <<>>
  /\ src.blocks = <<>>
  /\ src' = [src EXCEPT !.commit = <<CommitLine>>]
  /\ input' = InputText(src')
  /\ UNCHANGED <<pc, diff, panic, out, sel, patch, reparsed>>

\* ... a per-file header block ...
AddBlock(hdr) ==
  /\ pc = "input"
  /\ Len(src.blocks) < MaxDeltas
  /\ src' = [src EXCEPT !.blocks = Append(@, [hdr |-> hdr, hunks |-> <<>>])]
  /\ input' = InputText(src')
  /\ UNCHANGED <<pc, diff, panic, out, sel, patch, reparsed>>

\* ... a hunk of the last block.
AddHunk(h) ==
  /\ pc = "input"
  /\ src.blocks # <<>>
  /\ HunkCount(src.blocks, 1) < MaxHunks
  /\ src' = [src EXCEPT !.blocks[Len(src.blocks)].hunks = Append(@, h)]
  /\ input' = InputText(src')
  /\ UNCHANGED <<pc, diff, panic, out, sel, patch, reparsed>>

\* Diff::parse(input)
Parse ==
  /\ pc = "input"
  /\ \E r \in {Diff_parse(input)} :
       /\ diff' = r.diff
       /\ panic' = r.panic
       /\ pc' = IF r.panic = "" THEN "parsed" ELSE "panicked"
  /\ UNCHANGED <<src, input, out, sel, patch, reparsed>>

\* diff.to_string()
Display ==
  /\ pc = "parsed"
  /\ out' = Diff_fmt(diff[1])
  /\ pc' = "rendered"
  /\ UNCHANGED <<src, input, diff, panic, sel, patch, reparsed>>

\* diff.deltas[i].hunks[j].format_patch()
FormatPatch(i, j) ==
  /\ pc = "parsed"
  /\ sel' = <<i, j>>
  /\ patch' = format_patch(diff[1].deltas[i].hunks[j])
  /\ pc' = "patched"
  /\ UNCHANGED <<src, input, diff, panic, out, reparsed>>

\* Diff::parse(patch)
Reparse ==
  /\ pc = "patched"
  /\ reparsed' = <<Diff_parse(patch)>>
  /\ pc' = "reparsed"
  /\ UNCHANGED <<src, input, diff, panic, out, sel, patch>>

Next ==
  \/ AddCommit
  \/ \E hdr \in FileHeaders : AddBlock(hdr)
  \/ \E h \in HunkInputs : AddHunk(h)
  \/ Parse
  \/ Display
  \/ \E i \in 1..MaxDeltas : \E j \in 1..MaxHunks :
       /\ pc = "parsed"
       /\ i <= Len(diff[1].deltas)
       /\ j <= Len(diff[1].deltas[i].hunks)
       /\ FormatPatch(i, j)
  \/ Reparse

Spec == Init /\ [][Next]_vars

\* ------------------------------------------------------------------ claims
Parsed == pc \in {"parsed", "rendered", "patched", "reparsed"}
Done == pc # "input"

\* The hunks of a block of the input as the grammar reads them: each hunk
\* with a closed header, its body running on over the hunks after it whose
\* header lacks the closing "@@" (such a line is no hunk_header).
RECURSIVE Absorbed(_, _)
Absorbed(hs, k) ==
  IF k > Len(hs) \/ hs[k].closed THEN <<>>
  ELSE HunkHeaderLine(hs[k]) \o hs[k].body \o Absorbed(hs, k + 1)

RECURSIVE Readable(_, _)
Readable(hs, k) ==
  IF k > Len(hs) THEN <<>>
  ELSE IF ~hs[k].closed THEN Readable(hs, k + 1)
  ELSE <<[hunk |-> hs[k], body |-> hs[k].body \o Absorbed(hs, k + 1)]>>
         \o Readable(hs, k + 1)

\* The hunk of the input that the hunk diff.deltas[i].hunks[j] was read from,
\* and its body as it appears in the input.
SrcHunk(i, j) == Readable(src.blocks[i].hunks, 1)[j].hunk
SrcBody(i, j) == Readable(src.blocks[i].hunks, 1)[j].body
SelHunk == diff[1].deltas[sel[1]].hunks[sel[2]]

AllHunkInputs == {src.blocks[i].hunks[j] : <<i, j>> \in
                    {ij \in (1..Len(src.blocks)) \X (1..MaxHunks + 1) :
                       ij[2] <= Len(src.blocks[ij[1]].hunks)}}

\* C1: for an input without a leading commit line that Diff::parse accepts,
\* the text rendered by Display for Diff equals the input byte for byte.
C1_RoundTrip ==
  (pc = "rendered" /\ src.commit = <<>>) => out = input

\* C2: the whole-diff rendering is, for each delta in order, its file_header
\* followed, for each of its hunks in order, by header() (the range header
\* with the header_suffix) and then the content.
RECURSIVE HeaderThenContent(_, _)
HeaderThenContent(hunks, k) ==
  IF k > Len(hunks) THEN <<>>
  ELSE header(hunks[k]) \o hunks[k].content \o HeaderThenContent(hunks, k + 1)

RECURSIVE FileHeaderThenHunks(_, _)
FileHeaderThenHunks(deltas, k) ==
  IF k > Len(deltas) THEN <<>>
  ELSE deltas[k].file_header \o HeaderThenContent(deltas[k].hunks, 1)
         \o FileHeaderThenHunks(deltas, k + 1)

C2_RenderingUsesHeader ==
  pc = "rendered" => out = FileHeaderThenHunks(diff[1].deltas, 1)

\* C3: format_patch of a parsed hunk is the per-file header block, the
\* range-header line and the body, each exactly as written in the input.
C3_PatchReproducesInput ==
  pc = "patched" =>
    patch = src.blocks[sel[1]].hdr \o HunkHeaderLine(SrcHunk(sel[1], sel[2]))
              \o SrcBody(sel[1], sel[2])

\* C4: parsing h.format_patch() succeeds and gives exactly one delta with
\* exactly one hunk, equal to h in every field.
C4_HunkSelfSufficient ==
  pc = "reparsed" =>
    /\ reparsed[1].panic = ""
    /\ Len(reparsed[1].diff[1].deltas) = 1
    /\ Len(reparsed[1].diff[1].deltas[1].hunks) = 1
    /\ reparsed[1].diff[1].deltas[1].hunks[1] = SelHunk

C4_Witness ==
  /\ pc = "reparsed"
  /\ SelHunk.header_suffix # <<>>
  /\ SelHunk.content = ShapedBody
  /\ sel = <<2, 1>>

\* C5: an accepted input with k diff blocks gives k deltas in input order,
\* and a block with m hunks (m = 0 included) gives m hunks in input order.
WellFormed(h) == h.closed /\ h.vals # <<>>

C5_CardinalityAndOrder ==
  (Done /\ \A h \in AllHunkInputs : WellFormed(h)) =>
    /\ panic = ""
    /\ diff # <<>>
    /\ Len(diff[1].deltas) = Len(src.blocks)
    /\ \A i \in 1..Len(src.blocks) :
         /\ diff[1].deltas[i].file_header = src.blocks[i].hdr
         /\ Len(diff[1].deltas[i].hunks) = Len(src.blocks[i].hunks)
         /\ \A j \in 1..Len(src.blocks[i].hunks) :
              /\ diff[1].deltas[i].hunks[j].header_suffix = SrcHunk(i, j).suffix
              /\ diff[1].deltas[i].hunks[j].content = SrcHunk(i, j).body

C5_Witness ==
  /\ pc = "parsed"
  /\ Len(src.blocks) = 2
  /\ src.blocks[1].hdr # src.blocks[2].hdr
  /\ src.blocks[1].hunks = <<>>
  /\ src.blocks[2].hunks = <<HunkLarge, HunkExample>>
  /\ Len(diff[1].deltas[1].hunks) = 0
  /\ Len(diff[1].deltas[2].hunks) = 2

\* C6: a body line that starts with "+", "-" or a space and then holds
\* header-shaped text stays in its hunk's content, and the deltas and hunks
\* produced are as many as when those lines hold ordinary text.
PlainHunk(h) == IF h.body = ShapedBody THEN [h EXCEPT !.body = PlainBody] ELSE h
PlainSrc ==
  [src EXCEPT !.blocks =
     [i \in 1..Len(src.blocks) |->
        [src.blocks[i] EXCEPT !.hunks =
           [j \in 1..Len(src.blocks[i].hunks) |-> PlainHunk(src.blocks[i].hunks[j])]]]]

C6_StructuralAnchoring ==
  (pc = "parsed" /\ \E h \in AllHunkInputs : h.body = ShapedBody) =>
    \A plain \in {Diff_parse(InputText(PlainSrc))} :
    /\ plain.panic = ""
    /\ Len(diff[1].deltas) = Len(plain.diff[1].deltas)
    /\ \A i \in 1..Len(diff[1].deltas) :
         /\ Len(diff[1].deltas[i].hunks) = Len(plain.diff[1].deltas[i].hunks)
         /\ \A j \in 1..Len(diff[1].deltas[i].hunks) :
              SrcHunk(i, j).body = ShapedBody =>
                diff[1].deltas[i].hunks[j].content = SrcBody(i, j)

C6_Witness ==
  /\ pc = "parsed"
  /\ Len(src.blocks) = 2
  /\ src.blocks[1].hunks = <<HunkExample>>
  /\ src.blocks[2].hunks = <<HunkLarge>>
  /\ diff[1].deltas[1].hunks[1].content = ShapedBody
  /\ SrcBody(1, 1) = ShapedBody

FirstUnclosed ==
  \E i \in 1..Len(src.blocks) :
    src.blocks[i].hunks # <<>> /\ ~src.blocks[i].hunks[1].closed

C8_CommitDetection ==
  pc \in {"parsed", "panicked"} =>
    \A bare \in {Diff_parse(InputText([src EXCEPT !.commit = <<>>]))} :
    /\ panic = bare.panic
    /\ pc = "parsed" =>
         /\ diff[1].commit = src.commit
         /\ diff[1].deltas = bare.diff[1].deltas

C8_Witness ==
  /\ pc = "parsed"
  /\ src.commit = <<CommitLine>>
  /\ diff[1].commit = <<CommitLine>>
  /\ Len(diff[1].deltas) = 2

\* C9: the four numeric fields of every hunk that Diff::parse returns are
\* the decimal values of the four digit spans of its header, whatever the
\* number of body lines.
C9_NumericFidelity ==
  Parsed =>
    \A i \in 1..Len(diff[1].deltas) : \A j \in 1..Len(diff[1].deltas[i].hunks) :
      \A h \in {diff[1].deltas[i].hunks[j]} :
      <<h.old_start, h.old_lines, h.new_start, h.new_lines>> = SrcHunk(i, j).vals

C9_Witness ==
  /\ pc = "parsed"
  /\ Len(src.blocks) = 1
  /\ src.blocks[1].hunks = <<HunkExample, HunkLarge>>
  /\ diff[1].deltas[1].hunks[1].new_lines = 12
  /\ diff[1].deltas[1].hunks[2].old_start = 2147483647

\* C10: for every input the grammar accepts, Diff::parse returns a Diff and
\* none of the walker's invariant checks fires.
C10_NoInvariantFailure ==
  (Done /\ Rule_diffs(input).ok) => (panic = "" /\ diff # <<>>)

====
